---- MODULE Spec2Model ----
(***************************************************************************)
(* B-Progress: the state synchronisation layer (DataService in             *)
(* src/services/storage.ts) and the application shell that drives it       *)
(* (App in src/unnamed/part_004, the current App.tsx).                     *)
(*                                                                         *)
(* Specifications:                                                         *)
(*   Spec        the shell, the DataService and both stores as one closed  *)
(*               program, started from empty stores;                       *)
(*   SpecData    loadState / saveState called directly on stores whose     *)
(*               initial content is drawn from bounded sets;               *)
(*   SpecMaster  loadMasterState applied to row sequences drawn from       *)
(*               bounded sets;                                             *)
(*   SpecPartition saveState / loadState called directly for two users,    *)
(*               each saving states of its own;                            *)
(*   SpecRoundTrip saveState / loadState without remote configuration, on  *)
(*               states drawn from bounded sets;                           *)
(*   SpecReducer handleUpdateRecord applied to states drawn from bounded   *)
(*               sets;                                                     *)
(*   SpecSeeded  the shell with friend sessions only, started with a       *)
(*               friend row in the remote table and an empty Local Cache.  *)
(*                                                                         *)
(* Nullable values are sequences of length at most one: <<>> is null or    *)
(* undefined, <<x>> is the value x.                                        *)
(***************************************************************************)
EXTENDS Integers, Sequences, FiniteSets, TLC

\* ------------------------------------------------------------------ bounds
MaxLoads == 2        \* initData calls in flight at once (Spec)
MaxSaves == 2        \* upserts in flight at once (Spec)
DUsers == 1          \* non-empty user ids the direct calls range over (SpecData)
DMaxSaves == 2       \* upserts in flight at once (SpecData)
MaxRows == 3         \* rows returned by the select of all rows (SpecMaster)
MaxGroupIds == 2     \* distinct group ids in a row (SpecMaster)
MaxDates == 2        \* distinct dates of a record (SpecReducer)
MaxRecIds == 2       \* distinct surrogate ids Math.random can yield
MaxRecs == 2         \* records of a drawn state (SpecReducer)
MaxMsgs == 2         \* messages of a drawn state (SpecRoundTrip)

VARIABLES
  cloud,          \* supabase !== null (URL and key configured)
  localStorage,   \* the browser's localStorage: key -> nullable text
  table,          \* remote table app_state: sequence of rows [id, state_json]
  saves,          \* upserts in flight
  loads,          \* initData calls awaiting loadState / loadMasterState
  sessionUser,    \* App: useState sessionUser (nullable)
  state,          \* App: useState state (nullable AppState)
  isSyncing,      \* App: useState isSyncing
  isInitialLoad,  \* App: useRef isInitialLoad.current
  timerPending,   \* a setTimeout(() => isInitialLoad.current = false) is due
  checking,       \* checkSession awaits getSession
  loggingOut,     \* handleLogout awaits DataService.signOut
  auth,           \* the session the auth client holds (nullable account)
  applied,        \* history: per row id, the last two payloads upserts stored
  ev              \* history: the last operation performed and what it returned

vars == <<cloud, localStorage, table, saves, loads, sessionUser, state,
          isSyncing, isInitialLoad, timerPending, checking, loggingOut,
          auth, applied, ev>>

shellVars == <<sessionUser, state, isSyncing, isInitialLoad, timerPending,
               checking, loggingOut, auth, loads>>

\* ------------------------------------------------------------------ values
None == <<>>
Some(x) == <<x>>

\* userId === '' (falsy): the id the guards `!userId` / `&& userId` reject.
EmptyId == 0

ROLE_ADMIN == "admin"
ROLE_FRIEND == "friend"

\* src/constants is not part of the sources: the seed lists are opaque,
\* non-empty constants.
INITIAL_USERS == << [id |-> 0 - 1, role |-> ROLE_ADMIN] >>
INITIAL_TASKS == << [id |-> 0 - 1] >>

\* localStorage keys: `${STORAGE_KEY}_${userId}` and STORAGE_KEY itself.
UserKeyShared(userId) == <<"STORAGE_KEY", 1>>
UserKey(userId) == <<"STORAGE_KEY", userId>>
STORAGE_KEY == <<"STORAGE_KEY">>

\* The state loadState and loadMasterState build by hand.
DefaultState ==
  [ users |-> INITIAL_USERS,
    tasks |-> INITIAL_TASKS,
    records |-> <<>>,
    messages |-> <<>>,
    groups |-> <<>>,
    statuses |-> <<>>,
    currentUser |-> None,
    missing |-> {} ]   \* the collection properties the object lacks

\* userState.f || []
OrEmpty(s, f) == IF f \in s.missing THEN <<>> ELSE s[f]

\* ------------------------------------------------------------------ JSON
\* JSON.stringify omits a property whose value is undefined. The optional
\* property of the objects of a state is `attachment` (messages, statuses): a
\* record without the field lacks the property, None is the value undefined.
dropAttachment(o) ==
  IF "attachment" \in DOMAIN o THEN [k \in DOMAIN o \ {"attachment"} |-> o[k]] ELSE o
dropUndefined(o) ==
  IF "attachment" \in DOMAIN o /\ o.attachment = None
  THEN [k \in DOMAIN o \ {"attachment"} |-> o[k]]
  ELSE o

\* JSON.stringify(state): the text of an object, held as the value the text
\* denotes; properties the object lacks stay absent in the text.
JSONstringify(s) ==
  [kind |-> "json",
   val |-> [s EXCEPT !.messages = [i \in DOMAIN @ |-> dropUndefined(@[i])],
                     !.statuses = [i \in DOMAIN @ |-> dropUndefined(@[i])]]]

\* A stored text that is no JSON.
Garbage == [kind |-> "garbage"]

JSONparses(text) == text.kind = "json"
JSONparse(text) == text.val


\* The empty string: getItem yields it for a key set to '', and `if (saved)`
\* rejects it.
EmptyText == [kind |-> "empty"]

\* ------------------------------------------------------------------ remote
\* A row of app_state: id (primary key) and state_json (nullable AppState).
Row(id, payload) == [id |-> id, state_json |-> payload]

RowsOf(tbl, id) == SelectSeq(tbl, LAMBDA r : r.id = id)

\* .select('state_json').eq('id', id).single(): data is the row when exactly
\* one row matches, and null (with an error) otherwise.
SingleResult(tbl, id) ==
  LET m == RowsOf(tbl, id)
  IN  [kind |-> "result", data |-> IF Len(m) = 1 THEN Some(m[1]) ELSE None]

\* What the awaited select can come back with: the store's answer, an error
\* result (data null), or a rejected promise.
ErrorResult == [kind |-> "result", data |-> None]
Thrown == [kind |-> "throws"]
SelectResponses(tbl, id) == {SingleResult(tbl, id), ErrorResult, Thrown}

\* .upsert({id, state_json}, {onConflict: 'id'}): the row with that id is
\* replaced, or a new row is added. The table is written in primary-key order:
\* its physical order cannot be observed, a select of all rows delivers them
\* in any order.
UpsertAppends(tbl, id, s) == Append(tbl, Row(id, Some(s)))
Upsert(tbl, id, s) ==
  IF \E i \in 1..Len(tbl) : tbl[i].id = id
  THEN [i \in 1..Len(tbl) |-> IF tbl[i].id = id THEN Row(id, Some(s)) ELSE tbl[i]]
  ELSE SelectSeq(tbl, LAMBDA r : r.id < id) \o << Row(id, Some(s)) >>
         \o SelectSeq(tbl, LAMBDA r : r.id > id)

\* ------------------------------------------------------------------ loadState
\* Step 1 of loadState (try cloud). out: "skip" (guard false), "return" (the
\* early return of the payload), "fall" (no payload), "caught" (the await
\* threw and the catch logged it), "throw" (an exception left the function).
TryCloud(cloudOn, userId, resp) ==
  IF ~(cloudOn /\ userId # EmptyId) THEN [out |-> "skip"]
  ELSE IF resp.kind = "throws" THEN [out |-> "caught"]
  ELSE IF resp.data # None /\ resp.data[1].state_json # None
       THEN [out |-> "return", value |-> resp.data[1].state_json[1]]
  ELSE [out |-> "fall"]

\* Step 2 of loadState (local storage), on the nullable text getItem gave.
TryLocalUncaught(saved) ==
  IF saved = None \/ saved[1] = EmptyText THEN [out |-> "fall"]
  ELSE IF ~JSONparses(saved[1]) THEN [out |-> "throw"]
  ELSE [out |-> "return", value |-> JSONparse(saved[1])]
TryLocal(saved) ==
  IF saved = None \/ saved[1] = EmptyText THEN [out |-> "fall"]
  ELSE IF ~JSONparses(saved[1]) THEN [out |-> "caught"]
  ELSE [out |-> "return", value |-> JSONparse(saved[1])]

\* loadState(userId), given the select's response and the local storage at the
\* time the function resumes. status: "returned" or "thrown"; readLocal: whether
\* localStorage.getItem was reached.
Returned(v, readLocal) == [status |-> "returned", value |-> v, readLocal |-> readLocal]
ThrownOut(readLocal) == [status |-> "thrown", readLocal |-> readLocal]
loadStateLocalFirst(cloudOn, userId, resp, ls) ==
  LET l == TryLocal(ls[UserKey(userId)])
      c == TryCloud(cloudOn, userId, resp)
  IN  IF l.out = "return" THEN Returned(l.value, TRUE)
      ELSE IF c.out = "return" THEN Returned(c.value, TRUE)
      ELSE Returned(DefaultState, TRUE)
loadStateNoLocal(cloudOn, userId, resp, ls) ==
  LET c == TryCloud(cloudOn, userId, resp)
  IN  IF c.out = "return" THEN Returned(c.value, FALSE)
      ELSE Returned(DefaultState, FALSE)
loadState(cloudOn, userId, resp, ls) ==
  LET c == TryCloud(cloudOn, userId, resp)
  IN  IF c.out = "return" THEN Returned(c.value, FALSE)
      ELSE IF c.out = "throw" THEN ThrownOut(FALSE)
      ELSE LET l == TryLocal(ls[UserKey(userId)])
           IN  IF l.out = "return" THEN Returned(l.value, TRUE)
               ELSE IF l.out = "throw" THEN ThrownOut(TRUE)
               ELSE Returned(DefaultState, TRUE)

\* ------------------------------------------------------------------ saveState
\* `if (!userId) return;` then localStorage.setItem(key, JSON.stringify(state)).
saveLocalNever(ls, userId, s) == ls
saveLocal(ls, userId, s) ==
  IF userId = EmptyId THEN ls
  ELSE [ls EXCEPT ![UserKey(userId)] = Some(JSONstringify(s))]

\* Whether saveState goes on to the upsert.
issuesUpsert(cloudOn, userId) == userId # EmptyId /\ cloudOn

\* How the promise of saveState settles for each outcome of the awaited upsert
\* ("ok", "error": an error result, "throws": a rejected promise).
settleUncaught(outcome) == IF outcome = "throws" THEN "rejected" ELSE "resolved"
settle(outcome) == "resolved"

\* Upserts that saveState issues again after `outcome`: none, there is no retry.
retryOnFailure(outcome) == IF outcome = "ok" THEN 0 ELSE 1
retries(outcome) == 0

\* The remote table after the upsert's outcome. The state travels as the JSON
\* body of the request.
applyUpsertFirstWins(tbl, id, s, outcome) ==
  IF outcome = "ok" /\ RowsOf(tbl, id) = <<>>
  THEN Upsert(tbl, id, JSONparse(JSONstringify(s)))
  ELSE tbl
applyUpsert(tbl, id, s, outcome) ==
  IF outcome = "ok" THEN Upsert(tbl, id, JSONparse(JSONstringify(s))) ELSE tbl


\* ------------------------------------------------------------------ loadMasterState
\* new Map(entries.map(g => [g.id, g])): set() on a key already present keeps
\* the key's place and replaces its value; values() follows insertion order.
MapSetFirstWins(m, g) ==
  IF \E i \in 1..Len(m) : m[i].id = g.id THEN m ELSE Append(m, g)
MapSet(m, g) ==
  IF \E i \in 1..Len(m) : m[i].id = g.id
  THEN [i \in 1..Len(m) |-> IF m[i].id = g.id THEN g ELSE m[i]]
  ELSE Append(m, g)

RECURSIVE MapValues(_, _)
MapValues(m, entries) ==
  IF entries = <<>> THEN m ELSE MapValues(MapSet(m, Head(entries)), Tail(entries))

\* Array.from(new Map([...a, ...b].map(g => [g.id, g])).values())
DedupById(a, b) == MapValues(<<>>, a \o b)

\* The reducer of loadMasterState: one row folded into the accumulator.
mergedWithDedup(acc, userState) ==
  [acc EXCEPT
     !.users = @ \o (IF userState.currentUser # None
                     THEN << userState.currentUser[1] >> ELSE <<>>),
     !.records = DedupById(@, OrEmpty(userState, "records")),
     !.messages = DedupById(@, OrEmpty(userState, "messages")),
     !.statuses = DedupById(@, OrEmpty(userState, "statuses")),
     !.groups = DedupById(@, OrEmpty(userState, "groups"))]
mergedWithUserLists(acc, userState) ==
  [acc EXCEPT
     !.users = @ \o userState.users,
     !.tasks = @ \o userState.tasks,
     !.records = @ \o OrEmpty(userState, "records"),
     !.messages = @ \o OrEmpty(userState, "messages"),
     !.statuses = @ \o OrEmpty(userState, "statuses"),
     !.groups = DedupById(@, OrEmpty(userState, "groups"))]
mergedWith(acc, userState) ==
  [acc EXCEPT
     !.users = @ \o (IF userState.currentUser # None
                     THEN << userState.currentUser[1] >> ELSE <<>>),
     !.records = @ \o OrEmpty(userState, "records"),
     !.messages = @ \o OrEmpty(userState, "messages"),
     !.statuses = @ \o OrEmpty(userState, "statuses"),
     !.groups = DedupById(@, OrEmpty(userState, "groups"))]
mergeRowResets(acc, row) ==
  IF row.state_json = None THEN DefaultState ELSE mergedWith(acc, row.state_json[1])
mergeRow(acc, row) ==
  IF row.state_json = None THEN acc ELSE mergedWith(acc, row.state_json[1])

\* data.reduce(reducer, defaultState)
RECURSIVE reduce(_, _)
reduce(rows, acc) ==
  IF rows = <<>> THEN acc ELSE reduce(Tail(rows), mergeRow(acc, Head(rows)))

\* What the awaited select of all rows can come back with: the rows, an error
\* result, a result without data, or a rejected promise.
AllRows(rows) == [kind |-> "result", error |-> FALSE, data |-> Some(rows)]
AllError == [kind |-> "result", error |-> TRUE, data |-> None]
AllNoData == [kind |-> "result", error |-> FALSE, data |-> None]
SelectAllResponses(rows) == {AllRows(rows), AllError, AllNoData, Thrown}

\* loadMasterState(), given the select's response.
loadMasterState(cloudOn, resp) ==
  IF ~cloudOn THEN Returned(DefaultState, FALSE)
  ELSE IF resp.kind = "throws" THEN Returned(DefaultState, FALSE)
  ELSE IF resp.error \/ resp.data = None THEN Returned(DefaultState, FALSE)
  ELSE Returned(reduce(resp.data[1], DefaultState), FALSE)


\* ------------------------------------------------------------------ ids, keys
\* One account per role: the ids of the friend and of the admin.
FriendId == 1
AdminId == 2
MaxId == IF DUsers > AdminId THEN DUsers ELSE AdminId
RowIds == 1..MaxId
LocalKeys == {UserKey(u) : u \in 0..MaxId} \cup {STORAGE_KEY}

\* The accounts that can hold a session: session.user with its id and the role
\* of its user_metadata.
Account(id, role) == [id |-> id, role |-> role]
Accounts == {Account(FriendId, ROLE_FRIEND), Account(AdminId, ROLE_ADMIN)}

\* ------------------------------------------------------------------ remote calls, auth
\* Whether loadState / loadMasterState reach their awaited select.
issuesSelect(cloudOn, userId) == cloudOn /\ userId # EmptyId
issuesSelectAll(cloudOn) == cloudOn

\* The response of a select that was never issued.
NoResponse == [kind |-> "none"]

\* signIn(email, password) for the account `a`, given the provider's answer
\* ("ok", "error"). called: whether the provider was called.
signInUnguarded(cloudOn, a, outcome) ==
  IF ~cloudOn
  THEN [status |-> "thrown", error |-> "TypeError", session |-> None, called |-> FALSE]
  ELSE IF outcome = "error"
  THEN [status |-> "thrown", error |-> "provider", session |-> None, called |-> TRUE]
  ELSE [status |-> "returned", error |-> "", session |-> Some(a), called |-> TRUE]
signIn(cloudOn, a, outcome) ==
  IF ~cloudOn
  THEN [status |-> "thrown", error |-> "Cloud not configured", session |-> None,
        called |-> FALSE]
  ELSE IF outcome = "error"
  THEN [status |-> "thrown", error |-> "provider", session |-> None, called |-> TRUE]
  ELSE [status |-> "returned", error |-> "", session |-> Some(a), called |-> TRUE]

\* signUp(email, password, metadata): as signIn; the provider may also accept
\* the account without opening a session ("confirm").
signUp(cloudOn, a, outcome) ==
  IF ~cloudOn
  THEN [status |-> "thrown", error |-> "Cloud not configured", session |-> None,
        called |-> FALSE]
  ELSE IF outcome = "error"
  THEN [status |-> "thrown", error |-> "provider", session |-> None, called |-> TRUE]
  ELSE [status |-> "returned", error |-> "",
        session |-> IF outcome = "ok" THEN Some(a) ELSE None, called |-> TRUE]

\* signOut(): `if (supabase) await supabase.auth.signOut()`, then
\* localStorage.removeItem(STORAGE_KEY). removes: whether removeItem is reached.
\* localStorage.removeItem(STORAGE_KEY), the last statement of signOut.
removeEveryKey(ls) == [k \in DOMAIN ls |-> None]
removeGlobalKey(ls) == [ls EXCEPT ![STORAGE_KEY] = None]

signOut(cloudOn, outcome) ==
  IF ~cloudOn THEN [status |-> "returned", called |-> FALSE, removes |-> TRUE]
  ELSE IF outcome = "throws" THEN [status |-> "thrown", called |-> TRUE, removes |-> FALSE]
  ELSE [status |-> "returned", called |-> TRUE, removes |-> TRUE]

\* An upsert in flight. The upserts in flight are a set: two upserts of the
\* same state to the same row have the effect of one.
Save(id, s) == [id |-> id, state |-> s, attempts |-> 1]

RemoveAt(seq, i) == [j \in 1..(Len(seq) - 1) |-> IF j < i THEN seq[j] ELSE seq[j + 1]]
LastTwo(seq) == IF Len(seq) <= 2 THEN seq ELSE SubSeq(seq, Len(seq) - 1, Len(seq))

\* The shell at rest: what the direct-call specifications leave untouched.
ShellIdle ==
  /\ sessionUser = None
  /\ state = None
  /\ isSyncing = FALSE
  /\ isInitialLoad = TRUE
  /\ timerPending = FALSE
  /\ checking = FALSE
  /\ loggingOut = FALSE
  /\ auth = None
  /\ loads = <<>>

\* ------------------------------------------------------------------ SpecData
\* loadState and saveState called directly.
DIds == 0..DUsers
DState(n) ==
  [DefaultState EXCEPT
     !.records = << [id |-> n, userId |-> 1, date |-> 1, remarks |-> "", mood |-> ""] >>,
     !.currentUser = Some([id |-> 1, role |-> ROLE_FRIEND])]
\* Two sample states: the calls treat a state as opaque, and no claim tells
\* more than two of them apart.
DStates == {DState(1), DState(2)}
DTexts == {None, Some(Garbage), Some(EmptyText)} \cup {Some(JSONstringify(s)) : s \in DStates}
\* The account the direct calls sign up and in: the calls treat it as opaque.
DAccounts == {Account(FriendId, ROLE_FRIEND)}
DRows == {<<>>, <<Row(1, None)>>} \cup {<<Row(1, Some(s))>> : s \in DStates}

InitData ==
  /\ cloud \in BOOLEAN
  /\ \E t \in DTexts : localStorage = [k \in LocalKeys |-> IF k = UserKey(1) THEN t ELSE None]
  /\ table \in DRows
  /\ saves = {}
  /\ applied = [u \in RowIds |-> <<>>]
  /\ ev = [op |-> "init"]
  /\ ShellIdle

\* await DataService.loadState(userId), request and response in one step.
D_LoadState(userId) ==
  \E resp \in IF issuesSelect(cloud, userId) THEN SelectResponses(table, userId)
               ELSE {NoResponse} :
    /\ ev' = [op |-> "loadState", userId |-> userId, resp |-> resp,
              res |-> loadState(cloud, userId, resp, localStorage),
              called |-> issuesSelect(cloud, userId),
              lsBefore |-> localStorage]
    /\ UNCHANGED <<cloud, localStorage, table, saves, applied, shellVars>>

\* DataService.saveState(userId, s) up to its await.
D_SaveState(userId, s) ==
  /\ issuesUpsert(cloud, userId) => Cardinality(saves) < DMaxSaves
  /\ localStorage' = saveLocal(localStorage, userId, s)
  /\ saves' = IF issuesUpsert(cloud, userId) THEN saves \cup {Save(userId, s)} ELSE saves
  /\ ev' = [op |-> "saveState", userId |-> userId, arg |-> s,
            issued |-> issuesUpsert(cloud, userId),
            called |-> issuesUpsert(cloud, userId),
            settled |-> IF issuesUpsert(cloud, userId) THEN "pending" ELSE "resolved"]
  /\ UNCHANGED <<cloud, table, applied, shellVars>>

\* The awaited upsert of a save in flight comes back with `outcome`, and
\* saveState runs to its end.
D_UpsertSettles(outcome) ==
  \E e \in saves :
         /\ table' = applyUpsert(table, e.id, e.state, outcome)
         /\ applied' = IF outcome = "ok"
                       THEN [applied EXCEPT ![e.id] = LastTwo(Append(@, e.state))]
                       ELSE applied
         /\ saves' = IF retries(outcome) > 0
                     THEN (saves \ {e}) \cup {[e EXCEPT !.attempts = @ + retries(outcome)]}
                     ELSE saves \ {e}
         /\ ev' = [op |-> "settled", userId |-> e.id, arg |-> e.state,
                   outcome |-> outcome, settled |-> settle(outcome),
                   attempts |-> e.attempts + retries(outcome)]
         /\ UNCHANGED <<cloud, localStorage, shellVars>>

\* await DataService.loadMasterState(), request and response in one step.
D_LoadMasterState ==
  \E resp \in IF issuesSelectAll(cloud) THEN SelectAllResponses(table) ELSE {NoResponse} :
    /\ ev' = [op |-> "loadMasterState", resp |-> resp,
              res |-> loadMasterState(cloud, resp),
              called |-> issuesSelectAll(cloud)]
    /\ UNCHANGED <<cloud, localStorage, table, saves, applied, shellVars>>

\* await DataService.signIn / signUp for the account `a`, call and answer in
\* one step. A session the provider opens is the one the auth client holds.
D_SignIn(a, outcome) ==
  LET r == signIn(cloud, a, outcome)
  IN  /\ auth' = IF r.session # None THEN r.session ELSE auth
      /\ ev' = [op |-> "signIn", res |-> r, called |-> r.called,
                before |-> <<localStorage, table, auth>>]
      /\ UNCHANGED <<cloud, localStorage, table, saves, applied, sessionUser, state,
                     isSyncing, isInitialLoad, timerPending, checking, loggingOut, loads>>

D_SignUp(a, outcome) ==
  LET r == signUp(cloud, a, outcome)
  IN  /\ auth' = IF r.session # None THEN r.session ELSE auth
      /\ ev' = [op |-> "signUp", res |-> r, called |-> r.called,
                before |-> <<localStorage, table, auth>>]
      /\ UNCHANGED <<cloud, localStorage, table, saves, applied, sessionUser, state,
                     isSyncing, isInitialLoad, timerPending, checking, loggingOut, loads>>

\* await DataService.signOut(), call and answer in one step.
D_SignOut(outcome) ==
  LET r == signOut(cloud, outcome)
  IN  /\ auth' = IF r.called /\ r.status = "returned" THEN None ELSE auth
      /\ localStorage' = IF r.removes THEN removeGlobalKey(localStorage)
                         ELSE localStorage
      /\ ev' = [op |-> "signOut", res |-> r, called |-> r.called,
                before |-> <<localStorage, table, auth>>]
      /\ UNCHANGED <<cloud, table, saves, applied, sessionUser, state,
                     isSyncing, isInitialLoad, timerPending, checking, loggingOut, loads>>

NextData ==
  \/ \E u \in DIds : D_LoadState(u)
  \/ \E u \in DIds, s \in DStates : D_SaveState(u, s)
  \/ \E o \in {"ok", "error", "throws"} : D_UpsertSettles(o)
  \/ D_LoadMasterState
  \/ \E a \in DAccounts, o \in {"ok", "error"} : D_SignIn(a, o)
  \/ \E a \in DAccounts, o \in {"ok", "confirm", "error"} : D_SignUp(a, o)
  \/ \E o \in {"ok", "throws"} : D_SignOut(o)

SpecData == InitData /\ [][NextData]_vars


\* ------------------------------------------------------------------ claims on SpecData
\* The select of the last loadState came back with a non-null payload.
RemotePayload ==
  /\ cloud
  /\ ev.userId # EmptyId
  /\ ev.resp.kind = "result"
  /\ ev.resp.data # None
  /\ ev.resp.data[1].state_json # None

\* C1: loadState never throws. Whatever the remote outcome (disabled, the call
\* fails, no row, a row with an empty payload, a payload) and whatever the Local
\* Cache holds (nothing, a malformed text, a state), the call returns a state
\* that has users and tasks; with the remote unreachable and the local text
\* malformed it returns the default state, whose collections are empty.
C1_LoadStateNeverThrows ==
  ev.op = "loadState" =>
    /\ ev.res.status = "returned"
    /\ {"users", "tasks"} \cap ev.res.value.missing = {}
    /\ ev.res.value.users # <<>> /\ ev.res.value.tasks # <<>>
    /\ (~RemotePayload /\ localStorage[UserKey(ev.userId)] = Some(Garbage)) =>
         /\ ev.res.value = DefaultState
         /\ ev.res.value.records = <<>> /\ ev.res.value.messages = <<>>
         /\ ev.res.value.groups = <<>> /\ ev.res.value.statuses = <<>>

C1_Witness ==
  /\ ev.op = "loadState"
  /\ cloud /\ ev.userId = 1 /\ ev.resp = Thrown
  /\ localStorage[UserKey(1)] = Some(Garbage)
  /\ ev.res = Returned(DefaultState, TRUE)

\* C2 as claimed: every call saveState(userId, S) leaves S under the local key
\* of userId.
C2_EveryCallWritesLocal ==
  ev.op = "saveState" => localStorage[UserKey(ev.userId)] = Some(JSONstringify(ev.arg))

\* C2, amended: every call saveState(userId, S) with a non-empty userId leaves S
\* under the local key of userId, whether the remote is disabled or the upsert
\* later succeeds or fails; an upsert is only ever issued by a call that has
\* written the Local Cache. (With userId = '' the call returns at once.)
C2_NonEmptyIdWritesLocal ==
  /\ (ev.op = "saveState" /\ ev.userId # EmptyId) =>
        localStorage[UserKey(ev.userId)] = Some(JSONstringify(ev.arg))
  /\ (ev.op = "saveState" /\ ev.issued) =>
        localStorage[UserKey(ev.userId)] = Some(JSONstringify(ev.arg))
  /\ \A e \in saves : localStorage[UserKey(e.id)] # None

C2_Witness ==
  /\ ev.op = "saveState" /\ ev.userId = 1 /\ ev.issued
  /\ Cardinality(saves) = 2
  /\ localStorage[UserKey(1)] = Some(JSONstringify(ev.arg))

\* C3: remote wins on load. When the select returns a non-null payload P,
\* loadState returns exactly P whatever the Local Cache holds, and the Local
\* Cache is neither read nor changed.
C3_RemoteWins ==
  (ev.op = "loadState" /\ RemotePayload) =>
    /\ ev.res = Returned(ev.resp.data[1].state_json[1], FALSE)
    /\ localStorage = ev.lsBefore

C3_Witness ==
  /\ ev.op = "loadState" /\ RemotePayload
  /\ localStorage[UserKey(ev.userId)] \in {Some(Garbage), Some(JSONstringify(DState(1)))}
  /\ ev.res.value = DState(2)

\* C4: fallback order. Without a remote payload (remote disabled, failed, no
\* row, empty payload) loadState returns the parsed Local Cache value of the
\* per-user key when there is one and it parses, and the default state only
\* when it is absent or does not parse.
C4_FallbackOrder ==
  (ev.op = "loadState" /\ ~RemotePayload) =>
    LET saved == localStorage[UserKey(ev.userId)]
    IN  IF saved # None /\ saved[1].kind = "json"
        THEN ev.res = Returned(saved[1].val, TRUE)
        ELSE /\ ev.res = Returned(DefaultState, TRUE)
             /\ ev.res.value.currentUser = None

C4_Witness ==
  /\ ev.op = "loadState" /\ cloud /\ ev.userId = 1
  /\ ev.resp.kind = "result" /\ ev.resp.data # None
  /\ ev.resp.data[1].state_json = None
  /\ ev.res.value = DState(1)

\* C5: saveState never fails its caller and never retries. For every outcome
\* of the upsert (success, error result, exception) the call's promise
\* resolves, and a call issues at most one upsert.
C5_SaveNeverFailsNorRetries ==
  /\ ev.op \in {"saveState", "settled"} => ev.settled # "rejected"
  /\ ev.op = "settled" => ev.attempts <= 1
  /\ \A e \in saves : e.attempts <= 1

C5_Witness ==
  /\ ev.op = "settled" /\ ev.outcome = "throws"
  /\ ev.settled = "resolved" /\ ev.attempts = 1

\* C6: last write wins on id. Once two upserts of one id with different
\* payloads P1, P2 have been applied in that order, the store holds exactly one
\* row for the id, holding P2, and a loadState of that id which the store
\* answers returns P2.
C6_LastWriteWins ==
  \A u \in RowIds :
    (Len(applied[u]) = 2 /\ applied[u][1] # applied[u][2]) =>
      /\ RowsOf(table, u) = << Row(u, Some(applied[u][2])) >>
      /\ (ev.op = "loadState" /\ ev.userId = u /\ ev.resp = SingleResult(table, u)) =>
            ev.res.value = applied[u][2]

\* The two saves were applied against the order of their calls: the Local
\* Cache holds the later call's state, the store the one applied last.
C6_Witness ==
  /\ applied[1] = << DState(2), DState(1) >>
  /\ localStorage[UserKey(1)] = Some(JSONstringify(DState(2)))
  /\ ev.op = "loadState" /\ ev.userId = 1 /\ ev.resp = SingleResult(table, 1)
  /\ ev.res.value = DState(1)


\* C16: concurrent saves are unguarded. The remote row of a user holds the
\* payload of the upsert that completed last, whichever call was issued last:
\* a successful upsert leaves its own payload in the row whatever the Local
\* Cache holds, and the row always holds the payload applied last.
C16_LastCompletedWins ==
  /\ (ev.op = "settled" /\ ev.outcome = "ok") =>
        RowsOf(table, ev.userId) = << Row(ev.userId, Some(ev.arg)) >>
  /\ \A u \in RowIds :
       applied[u] # <<>> =>
         RowsOf(table, u) = << Row(u, Some(applied[u][Len(applied[u])])) >>

\* Both saves have completed, the older one last: the Local Cache holds the
\* state of the last call (S2), the remote row the state of the earlier call
\* (S1). S1 was applied after S2 and S2 was called after S1, so both were in
\* flight at once.
C16_Witness ==
  /\ ev.op = "settled" /\ ev.outcome = "ok" /\ ev.userId = 1
  /\ saves = {}
  /\ applied[1] = << DState(2), DState(1) >>
  /\ ev.arg = DState(1)
  /\ localStorage[UserKey(1)] = Some(JSONstringify(DState(2)))
  /\ RowsOf(table, 1) = << Row(1, Some(DState(1))) >>

\* ------------------------------------------------------------------ SpecPartition
\* saveState and loadState called directly for two users, each saving states
\* of its own: the records and the current user carry the user's id.
PIds == {FriendId, AdminId}
PState(u, n) ==
  [DefaultState EXCEPT
     !.records = << [id |-> n, userId |-> u, date |-> 1, remarks |-> "", mood |-> ""] >>,
     !.currentUser = Some([id |-> u, role |-> ROLE_FRIEND])]
POwn(u) == {PState(u, 1), PState(u, 2)}

InitPartition ==
  /\ cloud \in BOOLEAN
  /\ localStorage = [k \in LocalKeys |-> None]
  /\ table = <<>>
  /\ saves = {}
  /\ applied = [u \in RowIds |-> <<>>]
  /\ ev = [op |-> "init"]
  /\ ShellIdle

NextPartition ==
  \/ \E u \in PIds : \E s \in POwn(u) : D_SaveState(u, s)
  \/ \E o \in {"ok", "error", "throws"} : D_UpsertSettles(o)
  \/ \E u \in PIds : D_LoadState(u)

SpecPartition == InitPartition /\ [][NextPartition]_vars

\* Every Local Cache key and every remote row of a user holds a state that was
\* saved under that user's id, and no other key or row holds anything.
OwnPayloadsOnly ==
  /\ \A u \in PIds :
       localStorage[UserKey(u)] # None =>
         localStorage[UserKey(u)][1] \in {JSONstringify(s) : s \in POwn(u)}
  /\ \A k \in LocalKeys \ {UserKey(u) : u \in PIds} : localStorage[k] = None
  /\ \A i \in 1..Len(table) :
       /\ table[i].id \in PIds
       /\ table[i].state_json \in {Some(s) : s \in POwn(table[i].id)}

\* A step of saveState(u, S) (the call, or its upsert coming back) changes at
\* most the Local Cache key of u and the remote row with id u.
SaveFrame ==
  ev'.op \in {"saveState", "settled"} =>
    /\ \A k \in LocalKeys \ {UserKey(ev'.userId)} : localStorage'[k] = localStorage[k]
    /\ \A v \in RowIds \ {ev'.userId} : RowsOf(table', v) = RowsOf(table, v)
    /\ ev'.op = "saveState" => table' = table
    /\ ev'.op = "settled" => localStorage' = localStorage

\* C22: per-user partitioning of writes. saveState(u, S) changes only the
\* Local Cache key of u and the remote row with id u, so after any sequence of
\* saves by distinct users each user's key and row hold only payloads that
\* were saved under that user's id.
C22_WritesArePartitioned ==
  /\ []OwnPayloadsOnly
  /\ [][SaveFrame]_vars

\* Both users have saved and both upserts were applied: each key and each row
\* holds its own user's state, and the last save left the other user's alone.
C22_Witness ==
  /\ ev.op = "settled" /\ ev.outcome = "ok" /\ ev.userId = AdminId
  /\ saves = {}
  /\ localStorage[UserKey(FriendId)] = Some(JSONstringify(PState(FriendId, 1)))
  /\ localStorage[UserKey(AdminId)] = Some(JSONstringify(PState(AdminId, 2)))
  /\ table = << Row(FriendId, Some(PState(FriendId, 1))), Row(AdminId, Some(PState(AdminId, 2))) >>

\* ------------------------------------------------------------------ SpecRoundTrip
\* saveState and loadState called directly on a client without remote
\* configuration, on states whose messages and statuses have, lack, or hold as
\* undefined the optional attachment.
JMessages ==
  {[id |-> 1, senderId |-> 1]}
    \cup {[id |-> 1, senderId |-> 1, attachment |-> a] : a \in {None, Some("file")}}
JStatuses == {<<>>, << [id |-> 1, userId |-> 1, attachment |-> None] >>}
JStates ==
  {[DefaultState EXCEPT !.messages = ms, !.statuses = st] :
     ms \in UNION {[1..n -> JMessages] : n \in 0..MaxMsgs}, st \in JStatuses}
JIds == {FriendId, AdminId}

InitRoundTrip ==
  /\ cloud = FALSE
  /\ \E t \in {None, Some(Garbage)} :
       localStorage = [k \in LocalKeys |-> IF k = UserKey(FriendId) THEN t ELSE None]
  /\ table = <<>>
  /\ saves = {}
  /\ applied = [u \in RowIds |-> <<>>]
  /\ ev = [op |-> "init", last |-> [u \in JIds |-> None]]
  /\ ShellIdle

\* DataService.saveState(userId, s); ev.last keeps the state last saved for
\* each user id.
J_SaveState(userId, s) ==
  /\ ~issuesUpsert(cloud, userId)
  /\ localStorage' = saveLocal(localStorage, userId, s)
  /\ ev' = [op |-> "saveState", userId |-> userId, arg |-> s,
            last |-> [ev.last EXCEPT ![userId] = Some(s)]]
  /\ UNCHANGED <<cloud, table, saves, applied, shellVars>>

\* await DataService.loadState(userId).
J_LoadState(userId) ==
  /\ ~issuesSelect(cloud, userId)
  /\ ev' = [op |-> "loadState", userId |-> userId,
            res |-> loadState(cloud, userId, NoResponse, localStorage),
            last |-> ev.last]
  /\ UNCHANGED <<cloud, localStorage, table, saves, applied, shellVars>>

NextRoundTrip ==
  \/ \E u \in JIds, s \in JStates : J_SaveState(u, s)
  \/ \E u \in JIds : J_LoadState(u)

SpecRoundTrip == InitRoundTrip /\ [][NextRoundTrip]_vars

\* A loadState of a user id for which a state was saved before.
LoadAfterSave == ev.op = "loadState" /\ ev.last[ev.userId] # None

\* The objects of `seq` that hold an undefined attachment.
UndefinedIn(seq) ==
  {i \in 1..Len(seq) : "attachment" \in DOMAIN seq[i] /\ seq[i].attachment = None}

\* `out` is `seq` with the undefined attachments left out.
SameButUndefined(out, seq) ==
  /\ Len(out) = Len(seq)
  /\ \A i \in 1..Len(seq) :
       IF i \in UndefinedIn(seq)
       THEN /\ DOMAIN out[i] = DOMAIN seq[i] \ {"attachment"}
            /\ \A k \in DOMAIN out[i] : out[i][k] = seq[i][k]
       ELSE out[i] = seq[i]

\* C12 as claimed: with the remote disabled, loadState(userId) after
\* saveState(userId, S) returns a state equal to S.
C12_RoundTripEqual ==
  LoadAfterSave => ev.res = Returned(ev.last[ev.userId][1], TRUE)

\* C12, amended: with the remote disabled, loadState(userId) after
\* saveState(userId, S) returns S without its undefined-valued properties (the
\* attachment of a message or status built without one): every other property
\* and every element is as in S, and the result equals S when S holds no
\* undefined-valued property.
C12_RoundTripUpToUndefined ==
  LoadAfterSave =>
    LET S == ev.last[ev.userId][1]
        R == ev.res.value
    IN  /\ ev.res.status = "returned"
        /\ SameButUndefined(R.messages, S.messages)
        /\ SameButUndefined(R.statuses, S.statuses)
        /\ [R EXCEPT !.messages = S.messages, !.statuses = S.statuses] = S
        /\ (UndefinedIn(S.messages) = {} /\ UndefinedIn(S.statuses) = {}) => R = S

\* A state with a message that carries an attachment and one that lacks the
\* property comes back equal, although another user saved in between.
C12_Witness ==
  /\ LoadAfterSave /\ ev.userId = FriendId
  /\ ev.last[AdminId] # None /\ ev.last[AdminId] # ev.last[FriendId]
  /\ LET S == ev.last[FriendId][1]
     IN  /\ Len(S.messages) = 2
         /\ S.messages[1] = [id |-> 1, senderId |-> 1, attachment |-> Some("file")]
         /\ S.messages[2] = [id |-> 1, senderId |-> 1]
         /\ S.statuses = <<>>
         /\ ev.res.value = S

\* A state with a message whose attachment is undefined comes back without
\* that property.
C12_WitnessUndefined ==
  /\ LoadAfterSave
  /\ LET S == ev.last[ev.userId][1]
     IN  /\ S.messages = << [id |-> 1, senderId |-> 1, attachment |-> None] >>
         /\ ev.res.value.messages = << [id |-> 1, senderId |-> 1] >>

\* ------------------------------------------------------------------ SpecSignOut
\* saveState, signOut and loadState called directly while the remote is
\* unavailable: not configured, or configured and every select and upsert
\* fails. ev.last keeps the state last saved for each user id, ev.out tells
\* that a sign-out has happened.
OIds == {FriendId, AdminId}
OStates ==
  {[DefaultState EXCEPT !.messages = ms] :
     ms \in {<<>>,
             << [id |-> 1, senderId |-> 1, attachment |-> None] >>,
             << [id |-> 1, senderId |-> 1, attachment |-> Some("file")],
                [id |-> 1, senderId |-> 1] >>}}

InitSignOut ==
  /\ cloud \in BOOLEAN
  /\ \E g \in {None, Some(Garbage)} :
       localStorage = [k \in LocalKeys |-> IF k = STORAGE_KEY THEN g ELSE None]
  /\ table = <<>>
  /\ saves = {}
  /\ applied = [u \in RowIds |-> <<>>]
  /\ ev = [op |-> "init", last |-> [u \in OIds |-> None], out |-> FALSE]
  /\ ShellIdle

\* DataService.saveState(userId, s); the upsert, when one is issued, fails.
O_SaveState(userId, s, outcome) ==
  /\ localStorage' = saveLocal(localStorage, userId, s)
  /\ table' = IF issuesUpsert(cloud, userId) THEN applyUpsert(table, userId, s, outcome)
              ELSE table
  /\ ev' = [op |-> "saveState", userId |-> userId,
            last |-> [ev.last EXCEPT ![userId] = Some(s)], out |-> ev.out]
  /\ UNCHANGED <<cloud, saves, applied, shellVars>>

\* await DataService.loadState(userId); the select, when one is issued, fails.
O_LoadState(userId) ==
  \E resp \in IF issuesSelect(cloud, userId) THEN {ErrorResult, Thrown}
               ELSE {NoResponse} :
    /\ ev' = [op |-> "loadState", userId |-> userId,
              res |-> loadState(cloud, userId, resp, localStorage),
              last |-> ev.last, out |-> ev.out]
    /\ UNCHANGED <<cloud, localStorage, table, saves, applied, shellVars>>

\* await DataService.signOut(); ev.before is the Local Cache the call found.
O_SignOut(outcome) ==
  LET r == signOut(cloud, outcome)
  IN  /\ localStorage' = IF r.removes THEN removeGlobalKey(localStorage)
                         ELSE localStorage
      /\ ev' = [op |-> "signOut", res |-> r, before |-> localStorage,
                last |-> ev.last, out |-> TRUE]
      /\ UNCHANGED <<cloud, table, saves, applied, shellVars>>

NextSignOut ==
  \/ \E u \in OIds, s \in OStates, o \in {"error", "throws"} : O_SaveState(u, s, o)
  \/ \E u \in OIds : O_LoadState(u)
  \/ \E o \in {"ok", "throws"} : O_SignOut(o)

SpecSignOut == InitSignOut /\ [][NextSignOut]_vars

\* C25: DataService.signOut removes the global Local Cache key and changes no
\* per-user key, and with the remote unavailable a loadState(u) that follows a
\* sign-out still returns the state last saved locally for u (as the Local
\* Cache holds it: without its undefined-valued properties).
C25_SignOutKeepsUserCache ==
  /\ ev.op = "signOut" =>
       /\ ev.res.status = "returned" => localStorage[STORAGE_KEY] = None
       /\ \A k \in LocalKeys \ {STORAGE_KEY} : localStorage[k] = ev.before[k]
  /\ (LoadAfterSave /\ ev.out) =>
       LET S == ev.last[ev.userId][1]
           R == ev.res.value
       IN  /\ ev.res.status = "returned"
           /\ ev.res.readLocal
           /\ SameButUndefined(R.messages, S.messages)
           /\ SameButUndefined(R.statuses, S.statuses)
           /\ [R EXCEPT !.messages = S.messages, !.statuses = S.statuses] = S

\* A sign-out that found the global key and both users' keys filled, and
\* removed the global key only.
C25_WitnessSignOut ==
  /\ ev.op = "signOut" /\ ev.res.status = "returned"
  /\ ev.before[STORAGE_KEY] # None
  /\ localStorage[STORAGE_KEY] = None
  /\ ev.last[FriendId] # None /\ ev.last[AdminId] # None
  /\ ev.last[AdminId] # ev.last[FriendId]
  /\ localStorage[UserKey(FriendId)] = Some(JSONstringify(ev.last[FriendId][1]))
  /\ localStorage[UserKey(AdminId)] = Some(JSONstringify(ev.last[AdminId][1]))

\* With the remote configured and failing, a loadState after a save and a
\* later sign-out returns the saved state.
C25_Witness ==
  /\ LoadAfterSave /\ ev.out /\ ev.userId = FriendId
  /\ cloud
  /\ localStorage[STORAGE_KEY] = None
  /\ Len(ev.last[FriendId][1].messages) = 2
  /\ ev.res.value = ev.last[FriendId][1]

\* C11: without the remote configuration the client is inert. loadState,
\* saveState and loadMasterState issue no remote call and complete normally
\* (signOut too); signUp and signIn, and only they, fail, with the error
\* "Cloud not configured", and leave the Local Cache, the remote table and the
\* auth session as they were. No upsert is ever in flight or applied.
C11_InertWithoutConfiguration ==
  ~cloud =>
    /\ ev.op # "init" => ~ev.called
    /\ ev.op \in {"loadState", "loadMasterState"} => ev.res.status = "returned"
    /\ ev.op = "saveState" => ev.settled = "resolved"
    /\ ev.op = "signOut" => ev.res.status = "returned"
    /\ ev.op \in {"signUp", "signIn"} =>
         /\ ev.res.status = "thrown"
         /\ ev.res.error = "Cloud not configured"
         /\ ev.before = <<localStorage, table, auth>>
    /\ ev.op = "loadState" => ev.res = loadState(FALSE, ev.userId, NoResponse, localStorage)
    /\ ev.op = "loadMasterState" => ev.res.value = DefaultState
    /\ saves = {}
    /\ \A u \in RowIds : applied[u] = <<>>

\* signIn fails on a client without configuration whose Local Cache holds a
\* state.
C11_Witness ==
  /\ ~cloud
  /\ ev.op = "signIn"
  /\ ev.res.error = "Cloud not configured"
  /\ localStorage[UserKey(1)] = Some(JSONstringify(DState(1)))

\* A save on a client without configuration: written locally, nothing issued.
C11_WitnessSave ==
  /\ ~cloud
  /\ ev.op = "saveState" /\ ev.userId = 1
  /\ localStorage[UserKey(1)] = Some(JSONstringify(ev.arg))
  /\ saves = {}

\* ------------------------------------------------------------------ SpecMaster
\* loadMasterState applied to row sequences drawn from bounded sets.
Group(id, name) == [id |-> id, name |-> name]
MGroupSeqs ==
  {<<>>} \cup {<< Group(i, n) >> : i \in 1..MaxGroupIds, n \in {"A", "B"}}

\* The rest of a row's state, three ways: a state without the optional
\* collections and without a current user, and the states of two users with
\* their own records, messages, statuses, users and tasks.
MUser(u) == [id |-> u, role |-> ROLE_FRIEND]
MRecord(u) == [id |-> u, userId |-> u, date |-> 1, remarks |-> "", mood |-> ""]
MProfile(p, g) ==
  IF p = 0
  THEN [DefaultState EXCEPT !.groups = g,
                            !.missing = {"records", "messages", "statuses"}]
  ELSE [DefaultState EXCEPT
          !.groups = g,
          !.users = @ \o << MUser(p) >>,
          !.tasks = @ \o << [id |-> p] >>,
          !.currentUser = Some(MUser(p)),
          !.records = << MRecord(p) >>,
          !.messages = IF p = 1 THEN << [id |-> p, senderId |-> p] >> ELSE <<>>,
          !.statuses = IF p = 2 THEN << [id |-> p, userId |-> p] >> ELSE <<>>]
\* The reducer treats the groups and the other properties of a row apart, so
\* the sample states vary the one or the other.
MStates ==
  {MProfile(0, g) : g \in MGroupSeqs}
    \cup {MProfile(1, <<>>), MProfile(2, <<>>), MProfile(1, << Group(1, "A") >>)}
    \cup {[DefaultState EXCEPT !.missing = {"groups"}]}
MPayloads == {None} \cup {Some(s) : s \in MStates}

InitMaster ==
  /\ cloud \in BOOLEAN
  /\ \E n \in 0..MaxRows : \E f \in [1..n -> MPayloads] :
        table = [i \in 1..n |-> Row(i, f[i])]
  /\ localStorage = [k \in LocalKeys |-> None]
  /\ saves = {}
  /\ applied = [u \in RowIds |-> <<>>]
  /\ ev = [op |-> "init"]
  /\ ShellIdle

\* await DataService.loadMasterState(), request and response in one step. The
\* store returns its rows in the table's order; InitMaster ranges over every
\* order.
M_LoadMasterState ==
  \E resp \in SelectAllResponses(table) :
    /\ ev' = [op |-> "loadMasterState", resp |-> resp,
              res |-> loadMasterState(cloud, resp),
              called |-> issuesSelectAll(cloud)]
    /\ UNCHANGED <<cloud, localStorage, table, saves, applied, shellVars>>

NextMaster == M_LoadMasterState

SpecMaster == InitMaster /\ [][NextMaster]_vars

\* The select of the last loadMasterState delivered rows that were merged.
Merged == ev.op = "loadMasterState" /\ cloud /\ ev.resp = AllRows(table)

\* The groups of every non-empty row, in iteration order.
RECURSIVE GroupsOfRows(_)
GroupsOfRows(rows) ==
  IF rows = <<>> THEN <<>>
  ELSE (IF Head(rows).state_json = None THEN <<>>
        ELSE OrEmpty(Head(rows).state_json[1], "groups")) \o GroupsOfRows(Tail(rows))

\* C7: admin aggregation deduplicates groups by id, later rows winning. The
\* merged groups hold exactly one entry per group id that occurs in any row,
\* and that entry is the id's last occurrence in iteration order.
C7_GroupsDedupLaterWins ==
  Merged =>
    LET all == GroupsOfRows(table)
        out == ev.res.value.groups
    IN  /\ \A i, j \in 1..Len(out) : out[i].id = out[j].id => i = j
        /\ {out[i].id : i \in 1..Len(out)} = {all[i].id : i \in 1..Len(all)}
        /\ \A i \in 1..Len(out) :
             \E k \in 1..Len(all) :
               /\ all[k] = out[i]
               /\ \A l \in (k + 1)..Len(all) : all[l].id # out[i].id

\* Rows 1 and 3 hold group 1 under different names, row 2 holds group 2: the
\* merge keeps group 1 first, in row 3's version.
C7_Witness ==
  /\ Merged
  /\ Len(table) = 3
  /\ table[1].state_json # None /\ table[1].state_json[1].groups = << Group(1, "A") >>
  /\ table[2].state_json # None /\ table[2].state_json[1].groups = << Group(2, "A") >>
  /\ table[3].state_json # None /\ table[3].state_json[1].groups = << Group(1, "B") >>
  /\ ev.res.value.groups = << Group(1, "B"), Group(2, "A") >>

NonEmptyRows(rows) == SelectSeq(rows, LAMBDA r : r.state_json # None)

\* C8: admin aggregation is all-or-nothing and skips empty rows. A row with a
\* null payload contributes nothing: the merge equals the merge of the
\* non-empty rows alone. When the select fails (error result, no data,
\* exception) or the remote is disabled the result is exactly the default
\* state.
C8_AllOrNothingSkipsEmpty ==
  ev.op = "loadMasterState" =>
    /\ ev.res.status = "returned"
    /\ Merged => ev.res.value = reduce(NonEmptyRows(table), DefaultState)
    /\ (Merged /\ NonEmptyRows(table) = <<>>) => ev.res.value = DefaultState
    /\ ~Merged => ev.res.value = DefaultState

\* An empty row between two non-empty ones is skipped, and both are merged.
C8_Witness ==
  /\ Merged
  /\ Len(table) = 3
  /\ table[1].state_json = Some(MProfile(1, <<>>))
  /\ table[2].state_json = None
  /\ table[3].state_json = Some(MProfile(2, <<>>))
  /\ ev.res.value.records = << MRecord(1), MRecord(2) >>

\* The select failed although the table holds non-empty rows.
C8_WitnessFailure ==
  /\ ev.op = "loadMasterState" /\ cloud /\ ev.resp = AllError
  /\ NonEmptyRows(table) # <<>>
  /\ ev.res.value = DefaultState


\* The sequences `f` of every non-empty row, one after the other in iteration
\* order, a missing sequence counting as empty.
RECURSIVE ConcatOfRows(_, _)
ConcatOfRows(rows, f) ==
  IF rows = <<>> THEN <<>>
  ELSE (IF Head(rows).state_json = None THEN <<>>
        ELSE OrEmpty(Head(rows).state_json[1], f)) \o ConcatOfRows(Tail(rows), f)

RECURSIVE SumOfLengths(_, _)
SumOfLengths(rows, f) ==
  IF rows = <<>> THEN 0
  ELSE (IF Head(rows).state_json = None THEN 0
        ELSE Len(OrEmpty(Head(rows).state_json[1], f))) + SumOfLengths(Tail(rows), f)

\* C20: admin aggregation concatenates verbatim. The merged records, messages
\* and statuses are each the concatenation, in row iteration order, of the
\* rows' sequences: nothing dropped, reordered or deduplicated, and each
\* merged length is the sum of the rows' lengths.
C20_ConcatenatesVerbatim ==
  Merged =>
    \A f \in {"records", "messages", "statuses"} :
      /\ ev.res.value[f] = ConcatOfRows(table, f)
      /\ Len(ev.res.value[f]) = SumOfLengths(table, f)

\* Two rows hold the same record and the same message, a third row lacks the
\* sequences: the merge holds the record and the message twice.
C20_Witness ==
  /\ Merged
  /\ Len(table) = 3
  /\ table[1].state_json = Some(MProfile(1, <<>>))
  /\ table[2].state_json = Some(MProfile(0, <<>>))
  /\ table[3].state_json = Some(MProfile(1, <<>>))
  /\ ev.res.value.records = << MRecord(1), MRecord(1) >>
  /\ Len(ev.res.value.messages) = 2
  /\ ev.res.value.statuses = <<>>

\* The embedded current users of the non-empty rows that have one, in
\* iteration order.
RECURSIVE CurrentUsersOfRows(_)
CurrentUsersOfRows(rows) ==
  IF rows = <<>> THEN <<>>
  ELSE (IF Head(rows).state_json = None \/ Head(rows).state_json[1].currentUser = None
        THEN <<>>
        ELSE << Head(rows).state_json[1].currentUser[1] >>)
         \o CurrentUsersOfRows(Tail(rows))

\* C21: admin aggregation of users and tasks. The merged users are the seed
\* users followed by the embedded current user of each non-empty row that has
\* one, in row order and without deduplication; no row's own users or tasks
\* are merged, so the merged tasks are the seed tasks.
C21_UsersAreSeedPlusCurrentUsers ==
  Merged =>
    /\ ev.res.value.users = INITIAL_USERS \o CurrentUsersOfRows(table)
    /\ ev.res.value.tasks = INITIAL_TASKS

\* Two rows embed the same current user and hold users and tasks of their
\* own, a third row has no current user: the user appears twice after the
\* seed users, the tasks are the seed tasks.
C21_Witness ==
  /\ Merged
  /\ Len(table) = 3
  /\ table[1].state_json = Some(MProfile(1, <<>>))
  /\ table[2].state_json = Some(MProfile(0, <<>>))
  /\ table[3].state_json = Some(MProfile(1, <<>>))
  /\ Len(MProfile(1, <<>>).tasks) > Len(INITIAL_TASKS)
  /\ ev.res.value.users = INITIAL_USERS \o << MUser(1), MUser(1) >>
  /\ ev.res.value.tasks = INITIAL_TASKS

\* ------------------------------------------------------------------ handleUpdateRecord
\* A ProgressRecord: id, userId, date, and two of its content properties. A
\* recordUpdate (Partial<ProgressRecord>) carries userId and date; a content
\* property is None when the update does not have it.
findIndexByDate(records, upd) ==
  IF \E i \in 1..Len(records) : records[i].date = upd.date
  THEN CHOOSE i \in 1..Len(records) :
         /\ records[i].date = upd.date
         /\ \A j \in 1..(i - 1) : records[j].date # upd.date
  ELSE 0
\* records.findIndex(r => r.userId === upd.userId && r.date === upd.date),
\* with 0 for -1.
findIndex(records, upd) ==
  IF \E i \in 1..Len(records) : records[i].userId = upd.userId /\ records[i].date = upd.date
  THEN CHOOSE i \in 1..Len(records) :
         /\ records[i].userId = upd.userId /\ records[i].date = upd.date
         /\ \A j \in 1..(i - 1) :
              ~(records[j].userId = upd.userId /\ records[j].date = upd.date)
  ELSE 0

\* { ...records[existingIdx], ...recordUpdate }
spreadOver(old, upd) ==
  [old EXCEPT !.userId = upd.userId,
              !.date = upd.date,
              !.remarks = IF upd.remarks = None THEN @ ELSE upd.remarks[1],
              !.mood = IF upd.mood = None THEN @ ELSE upd.mood[1]]

\* The new record: recordUpdate.remarks || '' and so on, id from Math.random.
newRecord(upd, id) ==
  [id |-> id, userId |-> upd.userId, date |-> upd.date,
   remarks |-> IF upd.remarks = None THEN "" ELSE upd.remarks[1],
   mood |-> IF upd.mood = None THEN "" ELSE upd.mood[1]]

\* The updater handleUpdateRecord passes to setState, on a nullable state.
handleUpdateRecord(prev, upd, id) ==
  IF prev = None THEN None
  ELSE LET records == prev[1].records
           existingIdx == findIndex(records, upd)
       IN  Some([prev[1] EXCEPT !.records =
                   IF existingIdx > 0
                   THEN [records EXCEPT ![existingIdx] = spreadOver(@, upd)]
                   ELSE Append(records, newRecord(upd, id))])

\* ------------------------------------------------------------------ SpecReducer
\* handleUpdateRecord applied once to a state drawn from a bounded set.
RUsers == {1, 2}
RRecords ==
  {[id |-> i, userId |-> u, date |-> d, remarks |-> "a", mood |-> "x"] :
     i \in 1..MaxRecIds, u \in RUsers, d \in 1..MaxDates}
NoDuplicateKey(records) ==
  \A i, j \in 1..Len(records) :
    (records[i].userId = records[j].userId /\ records[i].date = records[j].date) => i = j
RRecordSeqs ==
  {rs \in UNION {[1..n -> RRecords] : n \in 0..MaxRecs} : NoDuplicateKey(rs)}
RUpdates ==
  [userId : RUsers, date : 1..MaxDates,
   remarks : {None, Some("b")}, mood : {None, Some("y")}]

InitReducer ==
  /\ cloud = FALSE
  /\ localStorage = [k \in LocalKeys |-> None]
  /\ table = <<>>
  /\ saves = {}
  /\ applied = [u \in RowIds |-> <<>>]
  /\ ev = [op |-> "init"]
  /\ sessionUser = None
  /\ state \in {None} \cup {Some([DefaultState EXCEPT !.records = rs]) : rs \in RRecordSeqs}
  /\ isSyncing = FALSE
  /\ isInitialLoad = TRUE
  /\ timerPending = FALSE
  /\ checking = FALSE
  /\ loggingOut = FALSE
  /\ auth = None
  /\ loads = <<>>

\* setState(prev => ...) of handleUpdateRecord, applied to the drawn state.
R_HandleUpdateRecord(upd, id) ==
  /\ ev.op = "init"
  /\ state' = handleUpdateRecord(state, upd, id)
  /\ ev' = [op |-> "handleUpdateRecord", prev |-> state, upd |-> upd, id |-> id]
  /\ UNCHANGED <<cloud, localStorage, table, saves, applied, sessionUser, isSyncing,
                 isInitialLoad, timerPending, checking, loggingOut, auth, loads>>

NextReducer == \E upd \in RUpdates, id \in 1..MaxRecIds : R_HandleUpdateRecord(upd, id)

SpecReducer == InitReducer /\ [][NextReducer]_vars

\* The positions of the records the update's (userId, date) matches.
Matching(records, upd) ==
  {i \in 1..Len(records) : records[i].userId = upd.userId /\ records[i].date = upd.date}

\* C9: find-or-create-then-replace. An update whose (userId, date) matches a
\* record replaces that record where it stands: same position, same id, the
\* update's properties over the old ones, every other record and the number of
\* records unchanged. An update that matches no record appends exactly one
\* record and changes no existing one.
C9_FindOrCreateThenReplace ==
  (ev.op = "handleUpdateRecord" /\ ev.prev # None) =>
    LET old == ev.prev[1].records
        new == state[1].records
        m == Matching(old, ev.upd)
    IN  /\ state # None
        /\ [state[1] EXCEPT !.records = old] = ev.prev[1]
        /\ IF m # {}
           THEN /\ Len(new) = Len(old)
                /\ \A i \in 1..Len(old) :
                     IF i \in m
                     THEN /\ new[i].id = old[i].id
                          /\ new[i].userId = old[i].userId /\ new[i].date = old[i].date
                          /\ new[i].remarks = IF ev.upd.remarks = None THEN old[i].remarks
                                              ELSE ev.upd.remarks[1]
                          /\ new[i].mood = IF ev.upd.mood = None THEN old[i].mood
                                           ELSE ev.upd.mood[1]
                     ELSE new[i] = old[i]
           ELSE /\ Len(new) = Len(old) + 1
                /\ SubSeq(new, 1, Len(old)) = old
                /\ new[Len(new)].userId = ev.upd.userId
                /\ new[Len(new)].date = ev.upd.date

\* The second of two records is replaced: one property from the update, the
\* other kept from the old record.
C9_Witness ==
  /\ ev.op = "handleUpdateRecord" /\ ev.prev # None
  /\ Len(ev.prev[1].records) = 2
  /\ Matching(ev.prev[1].records, ev.upd) = {2}
  /\ ev.upd.remarks = Some("b") /\ ev.upd.mood = None
  /\ state[1].records[2].remarks = "b" /\ state[1].records[2].mood = "x"
  /\ state[1].records[2].id = ev.prev[1].records[2].id
  /\ state[1].records[2].id # ev.id

\* No record matches although one has the update's date (another user's): a
\* record is appended.
C9_WitnessAppend ==
  /\ ev.op = "handleUpdateRecord" /\ ev.prev # None
  /\ Len(ev.prev[1].records) = 1
  /\ ev.prev[1].records[1].date = ev.upd.date
  /\ Matching(ev.prev[1].records, ev.upd) = {}
  /\ Len(state[1].records) = 2
  /\ state[1].records[2] = newRecord(ev.upd, ev.id)


\* ------------------------------------------------------------------ Spec: the shell
\* sessionUser.user_metadata?.role || Role.FRIEND
roleOf(su) == IF su.role = "" THEN ROLE_FRIEND ELSE su.role

\* userWithMeta: the current user initData builds from the session user.
userWithMeta(su) == [id |-> su.id, role |-> roleOf(su)]

\* The orders in which the store can return its rows.
Orders(tbl) ==
  {[i \in 1..Len(tbl) |-> tbl[f[i]]] :
     f \in {g \in [1..Len(tbl) -> 1..Len(tbl)] :
              \A i, j \in 1..Len(tbl) : g[i] = g[j] => i = j}}

\* The render guards: the dashboard is shown.
Dashboard == ~isSyncing /\ sessionUser # None /\ state # None

\* The condition of the auto-save effect, for the state and session user of
\* the render that runs it.
autoSaves(st, su) ==
  /\ st # None /\ su # None /\ ~isInitialLoad
  /\ (st[1].currentUser = None \/ st[1].currentUser[1].role # ROLE_ADMIN)

\* Effect 3 (per-user save) after a render in which state or sessionUser
\* changed: DataService.saveState(sessionUser.id, state) up to its await.
SaveEffect(st, su) ==
  IF autoSaves(st, su)
  THEN /\ issuesUpsert(cloud, su[1].id) =>
            Cardinality(saves \cup {Save(su[1].id, st[1])}) <= MaxSaves
       /\ localStorage' = saveLocal(localStorage, su[1].id, st[1])
       /\ saves' = IF issuesUpsert(cloud, su[1].id)
                   THEN saves \cup {Save(su[1].id, st[1])}
                   ELSE saves
  ELSE UNCHANGED <<localStorage, saves>>

\* History of the shell: what the last step did. op: "load" (an initData of
\* the current session resumed), "staleLoad" (one of an earlier session),
\* "mutate" (a reducer ran), "other"; saved: the step called saveState;
\* loaded: an initData of the current session has installed its result;
\* unsaved: `state` holds a reducer's change that no saveState call has carried.
Track(op, st, su, loaded) ==
  [op |-> op,
   saved |-> autoSaves(st, su),
   loaded |-> loaded,
   unsaved |-> /\ st # None /\ ~autoSaves(st, su)
               /\ (op = "mutate" \/ (ev.unsaved /\ op = "other"))]
Untracked == [ev EXCEPT !.op = "other", !.saved = FALSE]

\* The calls in flight when a session ends belong to an earlier session.
Stale(ls) == [i \in DOMAIN ls |-> [ls[i] EXCEPT !.stale = TRUE]]

\* Effect 2 (load data) after a render in which sessionUser changed to a user:
\* initData up to its await. The calls in flight are listed by user id: any of
\* them can resume next.
LoadEffect(su) ==
  /\ Len(loads) < MaxLoads
  /\ isSyncing' = TRUE
  /\ loads' = SelectSeq(loads, LAMBDA l : l.user.id <= su[1].id)
                 \o << [user |-> su[1], stale |-> FALSE] >>
                 \o SelectSeq(loads, LAMBDA l : l.user.id > su[1].id)

\* The onAuthStateChange callback, called with `session`, and the effects of
\* the render it causes.
AuthCallback(session) ==
  /\ sessionUser' = session
  /\ IF session = None
     THEN /\ state' = None
          /\ isSyncing' = FALSE
          /\ loads' = Stale(loads)
          /\ ev' = Track("other", None, None, FALSE)
          /\ UNCHANGED <<localStorage, saves>>
     ELSE /\ state' = state
          /\ LoadEffect(session)
          /\ SaveEffect(state, session)
          /\ ev' = Track("other", state, session, sessionUser # None /\ ev.loaded)

Init ==
  /\ cloud \in BOOLEAN
  /\ auth \in IF cloud THEN {None} \cup {Some(a) : a \in Accounts} ELSE {None}
  /\ localStorage = [k \in LocalKeys |-> None]
  /\ table = <<>>
  /\ saves = {}
  /\ loads = <<>>
  /\ applied = [u \in RowIds |-> <<>>]
  /\ ev = [op |-> "other", saved |-> FALSE, loaded |-> FALSE, unsaved |-> FALSE]
  /\ sessionUser = None
  /\ state = None
  /\ isSyncing = cloud
  /\ isInitialLoad = TRUE
  /\ timerPending = FALSE
  /\ checking = cloud
  /\ loggingOut = FALSE

\* checkSession resumes after getSession.
CheckSessionReturns ==
  /\ checking
  /\ checking' = FALSE
  /\ sessionUser' = auth
  /\ IF auth = None
     THEN /\ isSyncing' = FALSE
          /\ ev' = Track("other", state, None, FALSE)
          /\ UNCHANGED <<loads, localStorage, saves>>
     ELSE /\ LoadEffect(auth)
          /\ SaveEffect(state, auth)
          /\ ev' = Track("other", state, auth, sessionUser # None /\ ev.loaded)
  /\ UNCHANGED <<cloud, table, state, isInitialLoad, timerPending, loggingOut, auth,
                 applied>>

\* A sign-in succeeds (the auth screen's, or another tab's): SIGNED_IN.
SignIn(a) ==
  /\ cloud /\ auth = None
  /\ auth' = Some(a)
  /\ AuthCallback(Some(a))
  /\ UNCHANGED <<cloud, table, isInitialLoad, timerPending, checking, loggingOut,
                 applied>>

\* The session ends outside handleLogout (another tab, expiry): SIGNED_OUT.
SignedOut ==
  /\ cloud /\ auth # None
  /\ auth' = None
  /\ AuthCallback(None)
  /\ UNCHANGED <<cloud, table, isInitialLoad, timerPending, checking, loggingOut,
                 applied>>

\* The auth client announces the session it holds (INITIAL_SESSION,
\* TOKEN_REFRESHED): the callback gets a fresh session.user object.
AuthEvent ==
  /\ cloud /\ auth # None
  /\ AuthCallback(auth)
  /\ UNCHANGED <<cloud, table, isInitialLoad, timerPending, checking, loggingOut,
                 auth, applied>>

\* The i-th initData resumes after loadState / loadMasterState, whose select
\* came back with `resp`.
LoadReturns(i) ==
  /\ i \in 1..Len(loads)
  /\ LET su == loads[i].user
         role == roleOf(su)
     IN  \E resp \in IF role = ROLE_ADMIN
                     THEN UNION {SelectAllResponses(rows) : rows \in Orders(table)}
                     ELSE SelectResponses(table, su.id) :
           LET data == IF role = ROLE_ADMIN
                       THEN loadMasterState(cloud, resp).value
                       ELSE loadState(cloud, su.id, resp, localStorage).value
               st == Some([data EXCEPT !.currentUser = Some(userWithMeta(su))])
           IN  /\ state' = st
               /\ isSyncing' = FALSE
               /\ timerPending' = TRUE
               /\ loads' = RemoveAt(loads, i)
               /\ SaveEffect(st, sessionUser)
               /\ ev' = Track(IF loads[i].stale THEN "staleLoad" ELSE "load",
                              st, sessionUser, ev.loaded \/ ~loads[i].stale)
  /\ UNCHANGED <<cloud, table, sessionUser, isInitialLoad, checking, loggingOut, auth,
                 applied>>

\* A timer set by initData fires: isInitialLoad.current = false. (One flag
\* stands for all pending timers: they all do the same assignment.)
TimerFires ==
  /\ timerPending
  /\ isInitialLoad' = FALSE
  /\ timerPending' = FALSE
  /\ ev' = Untracked
  /\ UNCHANGED <<cloud, localStorage, table, saves, loads, sessionUser, state, isSyncing,
                 checking, loggingOut, auth, applied>>

\* What the friend dashboard submits: an update for its own user (the `user`
\* prop, state.currentUser), one date, one remark.
SUpdates(st) ==
  {[userId |-> st.currentUser[1].id, date |-> 1, remarks |-> Some(r), mood |-> None] :
     r \in {"a"}}

\* The friend dashboard calls onUpdateRecord.
HandleUpdateRecord ==
  /\ Dashboard
  /\ state[1].currentUser[1].role # ROLE_ADMIN
  /\ \E upd \in SUpdates(state[1]) :
       LET st == handleUpdateRecord(state, upd, 1)
       IN  /\ st # state
           /\ state' = st
           /\ SaveEffect(st, sessionUser)
           /\ ev' = Track("mutate", st, sessionUser, ev.loaded)
  /\ UNCHANGED <<cloud, table, loads, sessionUser, isSyncing, isInitialLoad, timerPending,
                 checking, loggingOut, auth, applied>>

\* The layout calls onLogout: handleLogout up to its await.
HandleLogout ==
  /\ Dashboard
  /\ ~loggingOut
  /\ isSyncing' = TRUE
  /\ loggingOut' = TRUE
  /\ ev' = Untracked
  /\ UNCHANGED <<cloud, localStorage, table, saves, loads, sessionUser, state,
                 isInitialLoad, timerPending, checking, auth, applied>>

\* await DataService.signOut() settles. "ok": it returns (the session is gone,
\* STORAGE_KEY removed) and handleLogout runs to its end. "throws": the
\* promise is rejected and handleLogout, which has no catch, ends at the await.
SignOutReturns(outcome) ==
  LET r == signOut(cloud, outcome)
  IN  /\ loggingOut
      /\ loggingOut' = FALSE
      /\ localStorage' = IF r.removes THEN removeGlobalKey(localStorage)
                         ELSE localStorage
      /\ IF r.status = "returned"
         THEN /\ auth' = None
              /\ sessionUser' = None
              /\ state' = None
              /\ isSyncing' = FALSE
              /\ loads' = Stale(loads)
              /\ ev' = Track("other", None, None, FALSE)
         ELSE /\ ev' = Untracked
              /\ UNCHANGED <<auth, sessionUser, state, isSyncing, loads>>
      /\ UNCHANGED <<cloud, table, saves, isInitialLoad, timerPending, checking,
                     applied>>

\* The awaited upsert of a save in flight comes back with `outcome`.
UpsertSettles(outcome) ==
  \E e \in saves :
    /\ table' = applyUpsert(table, e.id, e.state, outcome)
    /\ saves' = saves \ {e}
    /\ ev' = Untracked
    /\ UNCHANGED <<cloud, localStorage, shellVars, applied>>

Next ==
  \/ CheckSessionReturns
  \/ \E a \in Accounts : SignIn(a)
  \/ SignedOut
  \/ AuthEvent
  \/ \E i \in 1..MaxLoads : LoadReturns(i)
  \/ TimerFires
  \/ HandleUpdateRecord
  \/ HandleLogout
  \/ \E o \in {"ok", "throws"} : SignOutReturns(o)
  \/ \E o \in {"ok", "error", "throws"} : UpsertSettles(o)

Spec == Init /\ [][Next]_vars

\* C10 as claimed: in every in-memory state, records has at most one entry per
\* (userId, date).
C10_RecordsUniquePerUserDate ==
  state # None => NoDuplicateKey(state[1].records)

\* C13 as claimed: after any sign-out, and until a new session is established,
\* sessionUser and state are both null, also when an initData started before
\* the sign-out resumes after it.
C13_SignedOutStateStaysNull ==
  sessionUser = None => state = None

\* C14 as claimed: while the session user is an admin no saveState call is
\* issued.
C14_AdminSessionNeverSaves ==
  ev.saved => (sessionUser # None /\ roleOf(sessionUser[1]) # ROLE_ADMIN)

\* C15 as claimed: a saveState call is only issued once an initData of the
\* current session has completed and installed its result.
C15_LoadPrecedesFirstSave ==
  ev.saved => ev.loaded

\* C17 as claimed: the run of the auto-save effect that follows the setState
\* of a session's own initData issues no saveState call, in the first session
\* and in every later one.
C17_LoadedStateNotWrittenBack ==
  ev.op = "load" => ~ev.saved

\* Nothing is pending: no timer, no initData, no upsert, no session check, no
\* sign-out. Only the user or the auth client can make the next step.
Quiescent ==
  /\ ~timerPending /\ loads = <<>> /\ saves = {} /\ ~checking /\ ~loggingOut

\* C18 as claimed: every change a reducer makes in a ready non-admin session
\* is followed by a saveState call that carries it, without a further
\* mutation: the shell never comes to rest with a change no call has carried.
C18_EveryMutationPersisted ==
  ~(Dashboard /\ ev.unsaved /\ Quiescent)

\* C23 as claimed: every saveState(userId, S) the shell issues has
\* S.currentUser.id = userId.
C23_SavesUnderOwnKeyOnly ==
  ev.saved =>
    /\ state[1].currentUser # None
    /\ state[1].currentUser[1].id = sessionUser[1].id

\* C24 as claimed: whenever the dashboard is shown, state.currentUser is
\* non-null and is the session user.
C24_DashboardShowsSessionUser ==
  Dashboard =>
    /\ state[1].currentUser # None
    /\ state[1].currentUser[1].id = sessionUser[1].id

\* The shell with its pending work always carried out: every call awaited
\* (getSession, the selects, signOut, the upserts) settles and the timer fires.
SpecLive ==
  /\ Init
  /\ [][Next]_vars
  /\ WF_vars(CheckSessionReturns)
  /\ WF_vars(\E i \in 1..MaxLoads : LoadReturns(i))
  /\ WF_vars(\E o \in {"ok", "throws"} : SignOutReturns(o))
  /\ WF_vars(\E o \in {"ok", "error", "throws"} : UpsertSettles(o))
  /\ WF_vars(TimerFires)

\* C26 as claimed: provided every network call eventually returns, with
\* success or failure, isSyncing eventually becomes false from every reachable
\* state: the shell always leaves the loading screen.
C26_AlwaysLeavesLoading == isSyncing ~> ~isSyncing

\* ------------------------------------------------------------------ SpecSeeded
\* The shell on a device whose Local Cache is empty while the friend's remote
\* row already holds a state (saved from another device): a record of another
\* date than the one the dashboard edits.
SeededState ==
  [DefaultState EXCEPT
     !.records = << [id |-> 2, userId |-> FriendId, date |-> 2,
                     remarks |-> "", mood |-> ""] >>,
     !.currentUser = Some(userWithMeta(Account(FriendId, ROLE_FRIEND)))]

InitSeeded ==
  /\ cloud = TRUE
  /\ auth \in {None, Some(Account(FriendId, ROLE_FRIEND))}
  /\ localStorage = [k \in LocalKeys |-> None]
  /\ table = << Row(FriendId, Some(SeededState)) >>
  /\ saves = {}
  /\ loads = <<>>
  /\ applied = [u \in RowIds |-> <<>>]
  /\ ev = [op |-> "other", saved |-> FALSE, loaded |-> FALSE, unsaved |-> FALSE]
  /\ sessionUser = None
  /\ state = None
  /\ isSyncing = TRUE
  /\ isInitialLoad = TRUE
  /\ timerPending = FALSE
  /\ checking = TRUE
  /\ loggingOut = FALSE

\* The steps of the shell when only the friend signs in on this device.
NextSeeded ==
  \/ CheckSessionReturns
  \/ SignIn(Account(FriendId, ROLE_FRIEND))
  \/ SignedOut
  \/ AuthEvent
  \/ \E i \in 1..MaxLoads : LoadReturns(i)
  \/ TimerFires
  \/ HandleUpdateRecord
  \/ HandleLogout
  \/ \E o \in {"ok", "throws"} : SignOutReturns(o)
  \/ \E o \in {"ok", "error", "throws"} : UpsertSettles(o)

SpecSeeded == InitSeeded /\ [][NextSeeded]_vars

\* The state S descends from the payload P: the reducers never remove a
\* record, so S has a record for every (userId, date) P has one for.
Descends(S, P) ==
  \A i \in 1..Len(P.records) :
    \E j \in 1..Len(S.records) :
      /\ S.records[j].userId = P.records[i].userId
      /\ S.records[j].date = P.records[i].date

\* C19 as claimed: every state an upsert writes to a user's remote row descends
\* from the payload the row held when the session loaded, so the friend's row
\* always descends from the state it held at the start; a session whose
\* loadState fell back to the Local Cache or the default state never replaces
\* it.
C19_RowNeverLosesItsPayload ==
  \A i \in 1..Len(table) :
    (table[i].id = FriendId /\ table[i].state_json # None) =>
      Descends(table[i].state_json[1], SeededState)

====
